---- MODULE Spec2Model ----
(***************************************************************************)
(* ClockTree (src/treetime/clock_tree.py): date-constraint initialization, *)
(* the leaves->root and root->leaves message passes, finalization and the  *)
(* calendar conversion, over small rooted trees.                           *)
(*                                                                         *)
(* Distribution, NodeInterpolator, BranchLenInterpolator and               *)
(* utils.DateConversion are imported by clock_tree.py but are not part of  *)
(* src/; they are modelled from spec.md (sections 3, 4.1-4.3) on an        *)
(* integer grid: a density is a table of non-negative integer weights on   *)
(* an integer interval, multiply is the pointwise product, convolve the    *)
(* discrete convolution.                                                   *)
(*                                                                         *)
(* Every attribute value is a record with a field "kind", so that an       *)
(* attribute that was never assigned (Unset), None, a number and a         *)
(* distribution can be told apart.                                         *)
(***************************************************************************)
EXTENDS Integers, Sequences, FiniteSets, TLC

\* ------------------------------------------------------------------ bounds
\* sampling dates are drawn from {1, MaxDate}
MaxDate == 3
\* a branch-length density lives on 0..MaxBranchLen
MaxBranchLen == 2

\* init_date_constraints is called at most MaxInits times
MaxInits == 2

\* utils.numeric_date(): today's date as a number
Today == 4
\* self.one_mutation (TreeAnc)
one_mutation == 1

\* ------------------------------------------------------------ option values
Unset == [kind |-> "Unset"]
None == [kind |-> "None"]
Num(v) == [kind |-> "num", v |-> v]
Raise == [kind |-> "Raise"]

IsNum(a) == a.kind = "num"
Abs(i) == IF i < 0 THEN -i ELSE i

DateVals == {1, MaxDate}

\* ------------------------------------------------------------------- trees
\* up[n] is node n's parent, 0 for the root (node 1). Children are listed
\* in increasing order, as node.clades.
Trees ==
  { <<0, 1, 1>>,
    <<0, 1, 1, 1>>,
    <<0, 1, 1, 2>>,
    <<0, 1, 2, 2>>,
    <<0, 1, 1, 2, 2>> }

VARIABLES
  up,                          \* tree topology: node.up
  date_dict,                   \* self.date_dict
  mutations,                   \* per-edge mutation counts (TreeAnc)
  dead_peak,                   \* peak_pos of the "impossible" sentinel
  numdate_given, bad_branch,
  branch_length_interpolator,
  date2dist, max_diam,
  abs_t, msg_to_parent, msgs_from_leaves, msg_from_parent,
  marginal_lh, joint_lh,
  time_before_present, branch_length, clock_length, numdate, date,
  sent_by,                     \* how _send_message built each child's message
  complementary_msgs,          \* what the downward pass handed to multiply
  inverse_time,                \* the flag of each downward convolve call
  log,                         \* warnings logged by the last call
  last_op, again, err,
  inits,                       \* calls of init_date_constraints so far
  myTree,                      \* what the global name myTree is bound to
  invoked_on,                  \* the engine make_time_tree was invoked on
  other_calls,                 \* methods the last call invoked on another
                               \* engine instance
  stamp,                       \* the run in which each slot was last assigned
  stale_reads,                 \* reads of a slot not assigned when required
  root_sequence,               \* hasattr(self.tree.root, 'sequence')
  optimize_calls,              \* keyword sets of the calls of
                               \* optimize_seq_and_branch_len by the last call
  interpreter,                 \* the Python that runs the program, once seen
  x_rescale_acts               \* how the library's x_rescale treats its
                               \* receiver, once seen

vars == << up, date_dict, mutations, dead_peak, numdate_given, bad_branch,
           branch_length_interpolator, date2dist, max_diam, abs_t,
           msg_to_parent, msgs_from_leaves, msg_from_parent, marginal_lh,
           joint_lh, time_before_present, branch_length, clock_length,
           numdate, date, sent_by, complementary_msgs, inverse_time,
           log,
           last_op, again, err, inits, myTree, invoked_on, other_calls,
           stamp, stale_reads, root_sequence, optimize_calls, interpreter,
           x_rescale_acts >>

Nodes == 1..Len(up)
Root == 1
clades(n) == { c \in Nodes : up[c] = n }
is_terminal(n) == clades(n) = {}

RECURSIVE SetToSeq(_)
\* the elements of a set of integers in increasing order
SetToSeq(S) ==
  IF S = {} THEN << >>
  ELSE LET m == CHOOSE x \in S : \A y \in S : x <= y
       IN << m >> \o SetToSeq(S \ {m})

RECURSIVE Flatten(_)
Flatten(ss) == IF ss = << >> THEN << >> ELSE Head(ss) \o Flatten(Tail(ss))

RECURSIVE Preorder(_)
\* tree.find_clades(order='preorder'), the default order of find_clades()
Preorder(n) ==
  LET cs == SetToSeq(clades(n))
  IN << n >> \o Flatten([i \in 1..Len(cs) |-> Preorder(cs[i])])

RECURSIVE Postorder(_)
\* tree.find_clades(order='postorder')
Postorder(n) ==
  LET cs == SetToSeq(clades(n))
  IN Flatten([i \in 1..Len(cs) |-> Postorder(cs[i])]) \o << n >>

RECURSIVE Subtree(_)
Subtree(n) == {n} \cup UNION { Subtree(c) : c \in clades(n) }

\* ----------------------------------------------------------- distributions
\* Delta { pos, weight } | Interp { support xmin..xmax, weights p, peak_pos }
\* | the "impossible" sentinel with empty support.
IsDist(d) == d.kind \in {"delta", "interp", "dead"}

delta_function(x0, weight) == [kind |-> "delta", pos |-> x0, weight |-> weight]

Dead == [kind |-> "dead"]

\* argmin of y = -log p: the first grid point of largest weight
ArgMax(lo, hi, p) ==
  CHOOSE x \in lo..hi :
    /\ \A z \in lo..hi : p[z] <= p[x]
    /\ \A z \in lo..hi : p[z] = p[x] => x <= z

Interp(lo, hi, p) ==
  [kind |-> "interp", xmin |-> lo, xmax |-> hi, p |-> p,
   peak_pos |-> ArgMax(lo, hi, p)]

\* p(x): zero outside the support
prob(d, x) ==
  IF d.kind = "interp" /\ d.xmin <= x /\ x <= d.xmax THEN d.p[x] ELSE 0

\* dist.peak_pos / dist.is_delta
peak_pos(d) ==
  CASE d.kind = "delta" -> d.pos
    [] d.kind = "interp" -> d.peak_pos
    [] OTHER -> dead_peak

is_delta(d) == d.kind = "delta"

\* Distribution.shifted_x(D, delta): x' = x + delta, a new distribution
shifted_x(d, dx) ==
  IF d.kind # "interp" THEN d
  ELSE [kind |-> "interp", xmin |-> d.xmin + dx, xmax |-> d.xmax + dx,
        p |-> [x \in (d.xmin + dx)..(d.xmax + dx) |-> d.p[x - dx]],
        peak_pos |-> d.peak_pos + dx]

\* x_rescale(D, alpha) for alpha in {1, -1}: x' = alpha * x, the grid is
\* reversed when alpha < 0
x_rescale(d, alpha) ==
  IF d.kind # "interp" \/ alpha >= 0 THEN d
  ELSE [kind |-> "interp", xmin |-> -d.xmax, xmax |-> -d.xmin,
        p |-> [x \in (-d.xmax)..(-d.xmin) |-> d.p[-x]],
        peak_pos |-> -d.peak_pos]

RECURSIVE ProdAt(_, _, _)
\* product over the non-delta members of ds of p(x), times the deltas' weights
ProdAt(ds, i, x) ==
  IF i > Len(ds) THEN 1
  ELSE (IF ds[i].kind = "delta" THEN ds[i].weight ELSE prob(ds[i], x))
       * ProdAt(ds, i + 1, x)

MaxOf(S) == CHOOSE x \in S : \A y \in S : y <= x
MinOf(S) == CHOOSE x \in S : \A y \in S : x <= y

\* NodeInterpolator.multiply(dists). A None (or missing) member and an
\* empty collection are outside its domain: the call raises.
multiply(ds) ==
  IF Len(ds) = 0 \/ \E i \in 1..Len(ds) : ~IsDist(ds[i]) THEN Raise
  ELSE IF \E i \in 1..Len(ds) : ds[i].kind = "dead" THEN Dead
  ELSE
    LET deltas == { i \in 1..Len(ds) : ds[i].kind = "delta" }
    IN IF deltas # {}
       THEN LET x0 == ds[MinOf(deltas)].pos
            IN IF \E i \in deltas : ds[i].pos # x0 THEN Dead
               ELSE delta_function(x0, ProdAt(ds, 1, x0))
       ELSE LET lo == MaxOf({ ds[i].xmin : i \in 1..Len(ds) })
                hi == MinOf({ ds[i].xmax : i \in 1..Len(ds) })
            IN IF lo > hi THEN Dead
               ELSE Interp(lo, hi, [x \in lo..hi |-> ProdAt(ds, 1, x)])

RECURSIVE SumOver(_, _, _, _, _)
\* sum over t in lo..hi of A(t) * B(z - t)  (B(t - z) when inv)
SumOver(a, b, z, t, inv) ==
  IF t > a.xmax THEN 0
  ELSE a.p[t] * prob(b, IF inv THEN t - z ELSE z - t)
       + SumOver(a, b, z, t + 1, inv)

\* NodeInterpolator.convolve(A, B, inverse_time=False)
convolve(a, b, inv) ==
  IF ~IsDist(a) \/ ~IsDist(b) THEN Raise
  ELSE IF a.kind = "dead" \/ b.kind = "dead" THEN Dead
  ELSE IF a.kind = "delta"
       THEN IF inv THEN x_rescale(shifted_x(b, -a.pos), -1)
            ELSE shifted_x(b, a.pos)
  ELSE LET lo == IF inv THEN a.xmin - b.xmax ELSE a.xmin + b.xmin
           hi == IF inv THEN a.xmax - b.xmin ELSE a.xmax + b.xmax
       IN Interp(lo, hi, [z \in lo..hi |-> SumOver(a, b, z, a.xmin, inv)])

\* BranchLenInterpolator(node, gtr, one_mutation), with the mutation counts
\* m of the edges: a density over the branch
\* length, on 0..MaxBranchLen, peaked at the edge's mutation count
BranchLenInterpolator(m, n) ==
  Interp(0, MaxBranchLen,
         [b \in 0..MaxBranchLen |-> MaxBranchLen + 1 - Abs(b - m[n].v)])

\* ------------------------------------------------------- DateConversion
\* the regression results a call of from_tree may produce: they depend on
\* the root-to-tip branch lengths, which belong to TreeAnc
Fits ==
  { [slope |-> -1, intercept |-> 3],
    [slope |-> 1, intercept |-> 3],
    [slope |-> 2, intercept |-> 5] }

\* the slope argument of init_date_constraints
SlopeHints == { None, Num(-2) }

DatedTerminals(nd) == { n \in Nodes : is_terminal(n) /\ IsNum(nd[n]) }

\* the data alone make the calibration fail: fewer than two dated leaves,
\* or a free slope with all dated leaves sharing a single date
MustFail(nd, hint) ==
  \/ Cardinality(DatedTerminals(nd)) < 2
  \/ /\ hint = None
     /\ \A m, n \in DatedTerminals(nd) : nd[m] = nd[n]

\* utils.DateConversion.from_tree(tree, slope): Raise is the
\* calibration-failed error
from_tree(nd, hint, fit) ==
  IF MustFail(nd, hint) THEN Raise
  ELSE IF hint = None
       THEN IF fit.slope <= 0 THEN Raise
            ELSE [kind |-> "DateConversion", slope |-> fit.slope,
                  intercept |-> fit.intercept]
       ELSE [kind |-> "DateConversion", slope |-> hint.v,
             intercept |-> fit.intercept]

\* DateConversion.get_date(time_before_present) -> years before present;
\* the quotient is taken on the integer grid (its sign is that of the
\* numerator)
get_date(d2d, t) == (d2d.intercept - t) \div Abs(d2d.slope)

\* ------------------------------------------------------------- construction
\* ClockTree.__init__: numdate_given is read from the date table; every
\* other clock attribute does not exist yet.
AllUnset == [n \in Nodes |-> Unset]

\* the inputs drawn: a leaf is undated, dated, or dated and marked bad; an
\* internal node is undated or dated; the root is undated
InputOk ==
  \A n \in Nodes :
    /\ bad_branch[n] => (IsNum(date_dict[n]) /\ date_dict[n].v = 1)
    /\ ~is_terminal(n) => (~bad_branch[n] /\ date_dict[n] # Num(MaxDate))
    /\ n = Root => date_dict[n] = None

\* The module-level name myTree: bound to this engine by the script of
\* lines 293-297, unbound when the module is imported, or bound to another
\* ClockTree instance.
Bindings == {"self", "unbound", "other"}

\* the node attributes one pass writes and a later step reads
Slots == {"msgs_from_leaves", "msg_from_parent", "time_before_present"}

\* slot `slot` of node n is assigned by the current call of init and later
stamped(st, slot, S) ==
  [st EXCEPT ![slot] = [n \in Nodes |-> IF n \in S THEN inits ELSE @[n]]]

\* the read of `slot` of node `of` by operation op at node n, when stale
stale_if(cond, op, n, slot, of) ==
  IF cond THEN {[op |-> op, node |-> n, slot |-> slot, of |-> of]} ELSE {}

Init ==
  /\ up \in Trees
  /\ date_dict \in [Nodes -> {None} \cup { Num(d) : d \in DateVals }]
  /\ bad_branch \in [Nodes -> BOOLEAN]
  /\ InputOk
  /\ mutations = AllUnset
  /\ dead_peak \in {0, 9}
  /\ numdate_given = date_dict
  /\ date2dist = None
  /\ max_diam = 0
  /\ branch_length_interpolator = AllUnset
  /\ abs_t = AllUnset
  /\ msg_to_parent = AllUnset
  /\ msgs_from_leaves = AllUnset
  /\ msg_from_parent = AllUnset
  /\ marginal_lh = AllUnset
  /\ joint_lh = AllUnset
  /\ time_before_present = AllUnset
  /\ branch_length = AllUnset
  /\ clock_length = AllUnset
  /\ numdate = AllUnset
  /\ date = AllUnset
  /\ sent_by = [n \in Nodes |-> "Unset"]
  /\ complementary_msgs = AllUnset
  /\ inverse_time = [n \in Nodes |-> "Unset"]
  /\ log = {}
  /\ last_op = "__init__"
  /\ again = FALSE
  /\ err = "ok"
  /\ inits = 0
  /\ myTree \in Bindings
  /\ invoked_on = "none"
  /\ other_calls = << >>
  /\ stamp = [slot \in Slots |-> [n \in Nodes |-> 0]]
  /\ stale_reads = {}
  /\ root_sequence = FALSE
  /\ optimize_calls = << >>
  /\ interpreter = "not seen"
  /\ x_rescale_acts = "not seen"

\* --------------------------------------------------- init_date_constraints
\* lines 74-75: the node is constrained, given the dates nd
constrained(nd, n) == IsNum(nd[n]) /\ ~bad_branch[n]

\* line 84 with the sign of the slope kept
seed_abs_t_signed(nd, n, d2d) == (Today - nd[n].v) * d2d.slope

\* line 84
seed_abs_t(nd, n, d2d) == (Today - nd[n].v) * Abs(d2d.slope)

\* the keyword arguments (**kwarks) a caller may pass on
Kwarks == { {}, {"prune_short"} }

\* TreeAnc.optimize_seq_and_branch_len(**kwarks): infers the ancestral
\* sequences, the root's included, and from them the mutation count and the
\* length of every branch. The alignment places one mutation on each edge.
optimize_seq_and_branch_len_result(kw) ==
  [mutations |-> [n \in Nodes |-> Num(1)],
   branch_length |-> [n \in Nodes |-> Num(1 * one_mutation)],
   root_sequence |-> TRUE]

\* line 57: the guard of the call at line 58
needs_optimize(ancestral_inference) == ancestral_inference \/ ~root_sequence

\* lines 57-58: the TreeAnc attributes after the first step of
\* init_date_constraints, and the calls it made
after_optimize(ancestral_inference, kw) ==
  IF needs_optimize(ancestral_inference)
  THEN optimize_seq_and_branch_len_result(kw) @@ [calls |-> << kw >>]
  ELSE [mutations |-> mutations, branch_length |-> branch_length,
        root_sequence |-> root_sequence, calls |-> << >>]

\* the keyword arguments that tell two calls of init_date_constraints
\* apart: they are only passed on at line 58, so without that call they are
\* taken as empty
passed_on(ancestral_inference) ==
  IF needs_optimize(ancestral_inference) THEN Kwarks ELSE { {} }

\* lines 63-67, with the mutation counts m
make_interpolators(m) ==
  [n \in Nodes |-> IF up[n] # 0 THEN BranchLenInterpolator(m, n) ELSE None]

\* lines 72-91, with the calibration d2d
seed_nodes(nd, d2d) ==
  [numdate_given |-> [n \in Nodes |-> IF constrained(nd, n) THEN nd[n]
                                      ELSE None],
   abs_t |-> [n \in Nodes |-> IF constrained(nd, n)
                              THEN Num(seed_abs_t(nd, n, d2d))
                              ELSE None],
   msg_to_parent |-> [n \in Nodes |->
                        IF constrained(nd, n)
                        THEN delta_function(seed_abs_t(nd, n, d2d), 1)
                        ELSE None]]

\* the calibration reset before the fit, as in __init__ (lines 20-21)
calibration_failed_reset(nd) ==
  [err |-> "CalibrationError", date2dist |-> None, max_diam |-> 0,
   numdate_given |-> nd, abs_t |-> abs_t, msg_to_parent |-> msg_to_parent]

\* line 68 raises: nothing from line 68 on is assigned
calibration_failed(nd) ==
  [err |-> "CalibrationError", date2dist |-> date2dist,
   max_diam |-> max_diam, numdate_given |-> nd,
   abs_t |-> abs_t, msg_to_parent |-> msg_to_parent]

\* lines 68-91: what the call leaves in the attributes it assigns, from the
\* dates nd
init_result(nd, hint, fit) ==
  LET d2d == from_tree(nd, hint, fit)
  IN IF d2d = Raise THEN calibration_failed(nd)
     ELSE [err |-> "ok", date2dist |-> d2d, max_diam |-> d2d.intercept]
          @@ seed_nodes(nd, d2d)

\* The order of the calls. The three passes are private and are called, in
\* this order and followed by convert_dates, by make_time_tree (lines
\* 98-101), after init_date_constraints (lines 296-297); an exception ends
\* the run. The passes act on this engine when myTree names it.
\* init_date_constraints may be called again after a failed calibration
\* and for a new run; _set_final_dates may be repeated. The public
\* optimize_seq_and_branch_len precedes a run (line 295); date2dist may be
\* assigned before the first run and, in the last run, between
\* init_date_constraints and make_time_tree.
may_call(op) ==
  CASE op = "init_date_constraints" ->
         /\ inits < MaxInits
         /\ \/ last_op \in {"__init__", "optimize_seq_and_branch_len",
                          "date2dist"}
            \/ last_op = "init_date_constraints" /\ err # "ok"
            \/ last_op = "convert_dates" /\ err = "ok"
    [] op = "optimize_seq_and_branch_len" ->
         \/ last_op = "__init__"
         \/ last_op = "convert_dates" /\ err = "ok" /\ inits < MaxInits
    [] op = "date2dist" ->
         \/ last_op = "__init__"
         \/ last_op = "init_date_constraints" /\ err = "ok" /\ inits = MaxInits
    [] op = "make_time_tree" ->
         /\ err = "ok"
         /\ \/ last_op = "init_date_constraints"
            \/ last_op = "date2dist" /\ inits > 0
    [] op = "_ml_t_leaves_root" ->
         last_op = "make_time_tree" /\ err = "ok" /\ myTree = "self"
    [] op = "_ml_t_root_leaves" ->
         last_op = "_ml_t_leaves_root" /\ err = "ok"
    [] op = "_set_final_dates" ->
         last_op \in {"_ml_t_root_leaves", "_set_final_dates"} /\ err = "ok"
    [] op = "convert_dates" ->
         last_op = "_set_final_dates" /\ err = "ok"

init_date_constraints ==
  /\ may_call("init_date_constraints")
  /\ \E ancestral_inference \in BOOLEAN, hint \in SlopeHints, fit \in Fits :
     \E kwarks \in passed_on(ancestral_inference) :
     \E o \in { after_optimize(ancestral_inference, kwarks) },
        r \in { init_result(numdate_given, hint, fit) } :
       /\ inits' = inits + 1
       /\ mutations' = o.mutations
       /\ branch_length' = o.branch_length
       /\ root_sequence' = o.root_sequence
       /\ optimize_calls' = o.calls
       /\ branch_length_interpolator' = make_interpolators(o.mutations)
       /\ date2dist' = r.date2dist
       /\ max_diam' = r.max_diam
       /\ numdate_given' = r.numdate_given
       /\ abs_t' = r.abs_t
       /\ msg_to_parent' = r.msg_to_parent
       /\ err' = r.err
       /\ log' = {}
       /\ again' = (last_op = "init_date_constraints")
       /\ last_op' = "init_date_constraints"
       /\ invoked_on' = "none"
       /\ other_calls' = << >>
       /\ UNCHANGED << myTree, stamp, stale_reads, interpreter,
                       x_rescale_acts >>
       /\ UNCHANGED << up, date_dict, dead_peak, bad_branch,
                       msgs_from_leaves, msg_from_parent, marginal_lh,
                       joint_lh, time_before_present,
                       clock_length, numdate, date, sent_by,
                       complementary_msgs, inverse_time >>

\* ------------------------------------------- optimize_seq_and_branch_len
\* the public TreeAnc method, called on its own (line 295)
optimize_seq_and_branch_len ==
  \E kwarks \in Kwarks :
    LET o == optimize_seq_and_branch_len_result(kwarks)
    IN /\ may_call("optimize_seq_and_branch_len")
       /\ mutations' = o.mutations
       /\ branch_length' = o.branch_length
       /\ root_sequence' = o.root_sequence
       /\ optimize_calls' = << kwarks >>
       /\ err' = "ok"
       /\ log' = {}
       /\ again' = FALSE
       /\ last_op' = "optimize_seq_and_branch_len"
       /\ invoked_on' = "none"
       /\ other_calls' = << >>
       /\ UNCHANGED << myTree, stamp, stale_reads, interpreter,
                       x_rescale_acts, inits >>
       /\ UNCHANGED << up, date_dict, dead_peak, numdate_given, bad_branch,
                       branch_length_interpolator, date2dist, max_diam,
                       abs_t, msg_to_parent, msgs_from_leaves,
                       msg_from_parent, marginal_lh, joint_lh,
                       time_before_present, clock_length, numdate, date,
                       sent_by, complementary_msgs, inverse_time >>

\* ------------------------------------------------------- date2dist setter
\* the values a caller may assign to the property
SetterVals ==
  { None, [kind |-> "DateConversion", slope |-> 1, intercept |-> 3] }

\* lines 35-42: self.date2dist = val. The message of line 41 is logged
\* without warn, so it is no entry of log.
date2dist_setter ==
  \E val \in SetterVals :
    /\ may_call("date2dist")
    /\ date2dist' = val
    /\ err' = "ok"
    /\ log' = {}
    /\ optimize_calls' = << >>
    /\ again' = FALSE
    /\ last_op' = "date2dist"
    /\ other_calls' = << >>
    /\ UNCHANGED << myTree, invoked_on, stamp, stale_reads,
                    interpreter, x_rescale_acts, inits, root_sequence >>
    /\ UNCHANGED << up, date_dict, mutations, dead_peak, numdate_given,
                    bad_branch, branch_length_interpolator, max_diam,
                    abs_t, msg_to_parent, msgs_from_leaves,
                    msg_from_parent, marginal_lh, joint_lh,
                    time_before_present, branch_length, clock_length,
                    numdate, date, sent_by, complementary_msgs,
                    inverse_time >>

\* ---------------------------------------------------------- make_time_tree
\* the four calls of lines 98-101, in order
Passes ==
  << "_ml_t_leaves_root", "_ml_t_root_leaves", "_set_final_dates",
     "convert_dates" >>

\* How the four calls end on another instance, whose tree is not tracked:
\* all four return, or the pass number `calls` raises (an instance that was
\* not initialised fails in the first, an empty collection in the second,
\* an absent operand in the third, a missing calibration in the fourth).
OtherOutcomes ==
  { [calls |-> 4, err |-> "ok"],
    [calls |-> 1, err |-> "AttributeError"],
    [calls |-> 2, err |-> "MultiplyError"],
    [calls |-> 3, err |-> "MultiplyError"],
    [calls |-> 4, err |-> "AttributeError"] }

\* lines 98-101: every call goes to the object named by the global myTree,
\* whatever engine the method was invoked on
callee(on) == myTree

\* make_time_tree invoked on the engine `on`. An unbound name raises
\* NameError at line 98. When the callee is this engine its passes follow
\* as the steps ml_t_leaves_root .. convert_dates; the calls made on another
\* instance are recorded in other_calls, up to the one that raises.
make_time_tree ==
  \E on \in {"self", "other"} :
    /\ may_call("make_time_tree")
    /\ invoked_on' = on
    /\ last_op' = "make_time_tree"
    /\ again' = FALSE
    /\ log' = {}
    /\ \/ /\ callee(on) = "unbound"
          /\ err' = "NameError"
          /\ other_calls' = << >>
       \/ /\ callee(on) = "self"
          /\ err' = "ok"
          /\ other_calls' = << >>
       \/ /\ callee(on) = "other"
          /\ \E o \in OtherOutcomes :
               /\ err' = o.err
               /\ other_calls' = SubSeq(Passes, 1, o.calls)
    /\ optimize_calls' = << >>
    /\ UNCHANGED << stamp, stale_reads, root_sequence, interpreter,
                    x_rescale_acts >>
    /\ UNCHANGED << inits, myTree, up, date_dict, mutations, dead_peak,
                    numdate_given, bad_branch, branch_length_interpolator,
                    date2dist, max_diam, abs_t, msg_to_parent,
                    msgs_from_leaves, msg_from_parent, marginal_lh, joint_lh,
                    time_before_present, branch_length, clock_length,
                    numdate, date, sent_by, complementary_msgs,
                    inverse_time >>

\* ------------------------------------------------------- _ml_t_leaves_root
Dict(items) == [kind |-> "dict", items |-> items]
Keys(d) == { d.items[i].key : i \in 1..Len(d.items) }
Values(d) == [i \in 1..Len(d.items) |-> d.items[i].msg]
Get(d, k) == d.items[CHOOSE i \in 1..Len(d.items) : d.items[i].key = k].msg

\* _send_message(node), lines 126-135, on the state s of the pass
send_message(s, c) ==
  IF is_delta(s.mtp[c])
  THEN shifted_x(s.bli[c], peak_pos(s.mtp[c]))
  ELSE convolve(s.mtp[c], s.bli[c], FALSE)

send_kind(mtp, c) ==
  IF is_delta(mtp[c]) THEN "shifted_x" ELSE "convolve(inverse_time=False)"

RECURSIVE SelectSeq2(_, _)
\* the members of the sequence cs that satisfy keep, in order
SelectSeq2(cs, keep) ==
  IF cs = << >> THEN << >>
  ELSE (IF Head(cs) \in keep THEN << Head(cs) >> ELSE << >>)
       \o SelectSeq2(Tail(cs), keep)

\* lines 147-148 keeping the first contributing child only
contributing_first(mtp, n) ==
  LET cs == SelectSeq2(SetToSeq(clades(n)),
                       { c \in clades(n) : mtp[c] # None })
  IN IF cs = << >> THEN cs ELSE << Head(cs) >>

\* lines 147-148: the children that contribute a message
contributing(mtp, n) ==
  SelectSeq2(SetToSeq(clades(n)), { c \in clades(n) : mtp[c] # None })

\* line 150 asking for two constraints
no_constraint_below_two(items) == Len(items) < 2

\* line 150: no child contributed
no_constraint(items) == Len(items) < 1

\* one iteration of the loop at line 140, on the state s of the pass
up_node(s, n) ==
  IF is_terminal(n)
  THEN [s EXCEPT !.mfl[n] = Dict(<< >>)]
  ELSE IF \E c \in clades(n) :
            \/ s.mtp[c] = Unset
            \/ s.bli[c] = Unset
       THEN [s EXCEPT !.err = "AttributeError"]
  ELSE
    LET cs == contributing(s.mtp, n)
        items == [i \in 1..Len(cs) |->
                    [key |-> cs[i], msg |-> send_message(s, cs[i])]]
        s1 == [s EXCEPT !.mfl[n] = Dict(items),
                        !.sent = [c \in Nodes |->
                                    IF c \in Keys(Dict(items))
                                    THEN send_kind(s.mtp, c) ELSE s.sent[c]]]
    IN IF no_constraint(items) THEN s1
       ELSE [s1 EXCEPT !.mtp[n] = multiply(Values(Dict(items)))]

RECURSIVE up_run(_, _, _)
up_run(order, i, s) ==
  IF i > Len(order) \/ s.err # "ok" THEN s
  ELSE up_run(order, i + 1, up_node(s, order[i]))

\* line 140: the order of the upward pass
up_order == Postorder(Root)

ml_t_leaves_root ==
  LET r == up_run(up_order, 1,
                  [mtp |-> msg_to_parent, mfl |-> msgs_from_leaves,
                   bli |-> branch_length_interpolator, sent |-> sent_by,
                   err |-> "ok"])
  IN /\ may_call("_ml_t_leaves_root")
     /\ msg_to_parent' = r.mtp
     /\ msgs_from_leaves' = r.mfl
     /\ sent_by' = r.sent
     /\ err' = r.err
     /\ log' = {}
     /\ again' = (last_op = "_ml_t_leaves_root")
     /\ last_op' = "_ml_t_leaves_root"
     /\ stamp' = IF r.err = "ok"
                 THEN stamped(stamp, "msgs_from_leaves", Nodes)
                 ELSE stamp
     /\ UNCHANGED stale_reads
     /\ optimize_calls' = << >>
     /\ other_calls' = << >>
     /\ UNCHANGED << myTree, invoked_on, root_sequence, interpreter,
                     x_rescale_acts >>
     /\ UNCHANGED << inits, up, date_dict, mutations, dead_peak, numdate_given,
                     bad_branch, branch_length_interpolator, date2dist,
                     max_diam, abs_t, msg_from_parent, marginal_lh, joint_lh,
                     time_before_present, branch_length, clock_length,
                     numdate, date, complementary_msgs, inverse_time >>

\* ------------------------------------------------------- _ml_t_root_leaves
\* lines 186-187 without the condition k != node
other_keys_all(d, n) == Keys(d)

\* lines 186-187: the keys of the parent's messages other than node n
other_keys(d, n) == Keys(d) \ {n}

\* the interpreters the program runs under
Interpreters == {"python2", "python3"}

\* the interpreters the program may still turn out to run under
possible_interpreters ==
  IF interpreter = "not seen" THEN Interpreters ELSE {interpreter}

\* the orderings of the members of the set S
Perms(S) ==
  { f \in [1..Cardinality(S) -> S] :
      \A i, j \in 1..Cardinality(S) : i # j => f[i] # f[j] }

\* the keys of dictionary d in the order of their insertion (lines 147-148)
insertion_order(d) ==
  IF d = Unset THEN << >> ELSE [i \in 1..Len(d.items) |-> d.items[i].key]

\* line 186, "for k in parent.msgs_from_leaves": the orders in which the
\* keys of d may come. The keys are clade objects, hashed by address:
\* Python 3 yields them in insertion order, Python 2 in an order that
\* follows the addresses, which differ from one construction to the next.
key_orders(py, d) ==
  IF d = Unset THEN { << >> }
  ELSE IF py = "python2" THEN Perms(Keys(d))
  ELSE { insertion_order(d) }

\* the comprehension of lines 185-187 yields two keys or more for some
\* child of node p: only then does the order of p's dictionary show
shows_order(p) ==
  /\ msgs_from_leaves[p] # Unset
  /\ \E n \in clades(p) :
       Cardinality(other_keys(msgs_from_leaves[p], n)) >= 2

RECURSIVE iteration_orders(_, _)
\* one order for the dictionary of each of the nodes 1..k; the dictionaries
\* are not changed during the downward pass, so every iteration of one
\* dictionary yields the same order. A dictionary whose order shows nowhere
\* is listed in insertion order.
iteration_orders(py, k) ==
  IF k = 0 THEN { << >> }
  ELSE { Append(f, o) :
           f \in iteration_orders(py, k - 1),
           o \in key_orders(IF shows_order(k) THEN py ELSE "python3",
                            msgs_from_leaves[k]) }

\* the orders `it` hand every node its siblings' messages in the order of
\* insertion
as_inserted(it) ==
  \A n \in Nodes \ {Root} :
    LET d == msgs_from_leaves[up[n]]
    IN d # Unset =>
         SelectSeq2(it[up[n]], other_keys(d, n))
           = SelectSeq2(insertion_order(d), other_keys(d, n))

\* lines 185-190: the messages handed to multiply for node n, the
\* siblings' in the order s.it in which the parent's dictionary yields its
\* keys. Key 0 marks the parent's own msg_from_parent.
complementary(s, n) ==
  LET parent == up[n]
      d == s.mfl[parent]
      ks == SelectSeq2(s.it[parent], other_keys(d, n))
      sibs == [i \in 1..Len(ks) |-> [key |-> ks[i], msg |-> Get(d, ks[i])]]
  IN IF s.mfp[parent] # None
     THEN Append(sibs, [key |-> 0, msg |-> s.mfp[parent]])
     ELSE sibs

\* lines 185-187 taking node n's own entry out of the parent's dictionary
messages_after_pop(d, n) ==
  Dict(SelectSeq2([i \in 1..Len(d.items) |-> d.items[i]],
                  { e \in { d.items[i] : i \in 1..Len(d.items) } :
                      e.key # n }))

\* lines 185-187: the comprehension reads parent.msgs_from_leaves and
\* leaves the dictionary as it is
messages_after(d, n) == d

\* the inverse_time argument of the convolve call at lines 193-194
down_inverse_time == FALSE

\* one iteration of the loop at line 179
down_node(s0, n) ==
  LET s == IF up[n] = 0 THEN s0
           ELSE [s0 EXCEPT !.stale =
                   @ \cup stale_if(stamp["msgs_from_leaves"][up[n]] # inits,
                                   "_ml_t_root_leaves", n,
                                   "msgs_from_leaves", up[n])
                     \cup stale_if(up[n] \notin s0.done,
                                   "_ml_t_root_leaves", n,
                                   "msg_from_parent", up[n])]
  IN
  IF up[n] = 0
  THEN [s EXCEPT !.mfp[n] = None, !.done = @ \cup {n}]
  ELSE IF s.mfl[up[n]] = Unset
       THEN [s EXCEPT !.err = "AttributeError"]
  ELSE
    LET cm == complementary(s, n)
        msg_parent_to_node == multiply(Values(Dict(cm)))
        res == convolve(msg_parent_to_node, branch_length_interpolator[n],
                        down_inverse_time)
        s1 == [s EXCEPT !.cm[n] = Dict(cm),
                        !.mfl[up[n]] = messages_after(s.mfl[up[n]], n)]
    IN IF msg_parent_to_node = Raise THEN [s1 EXCEPT !.err = "MultiplyError"]
       ELSE IF res = Raise THEN [s1 EXCEPT !.err = "AttributeError"]
       ELSE [s1 EXCEPT !.mfp[n] = res,
                       !.done = @ \cup {n},
                       !.inv[n] = IF down_inverse_time THEN "True" ELSE "False"]

RECURSIVE down_run(_, _, _)
down_run(order, i, s) ==
  IF i > Len(order) \/ s.err # "ok" THEN s
  ELSE down_run(order, i + 1, down_node(s, order[i]))

\* line 179 visiting the children first
down_order_postorder == Postorder(Root)

\* line 179: the order of the downward pass
down_order == Preorder(Root)

\* Orders other than the insertion order show that the interpreter is
\* Python 2.
ml_t_root_leaves ==
  /\ may_call("_ml_t_root_leaves")
  /\ \E it \in UNION { iteration_orders(py, Len(up)) :
                         py \in possible_interpreters } :
       \E r \in { down_run(down_order, 1,
                         [mfp |-> msg_from_parent, cm |-> complementary_msgs,
                          mfl |-> msgs_from_leaves, it |-> it,
                          done |-> {}, stale |-> stale_reads,
                          inv |-> inverse_time, err |-> "ok"]) } :
          /\ interpreter' = IF as_inserted(it) THEN interpreter ELSE "python2"
          /\ msg_from_parent' = r.mfp
          /\ msgs_from_leaves' = r.mfl
          /\ complementary_msgs' = r.cm
          /\ inverse_time' = r.inv
          /\ err' = r.err
          /\ log' = {}
          /\ again' = (last_op = "_ml_t_root_leaves")
          /\ last_op' = "_ml_t_root_leaves"
          /\ stamp' = stamped(stamp, "msg_from_parent", r.done)
          /\ stale_reads' = r.stale
          /\ optimize_calls' = << >>
          /\ other_calls' = << >>
          /\ UNCHANGED << myTree, invoked_on, root_sequence, x_rescale_acts >>
          /\ UNCHANGED << inits, up, date_dict, mutations, dead_peak, numdate_given,
                          bad_branch, branch_length_interpolator, date2dist,
                          max_diam, abs_t, msg_to_parent,
                          marginal_lh, joint_lh, time_before_present,
                          branch_length, clock_length, numdate, date, sent_by >>

\* -------------------------------------------------------- _set_final_dates
\* lines 210-214
collapse_func(dist) == IF is_delta(dist) THEN peak_pos(dist) ELSE peak_pos(dist)

\* Distribution.x_rescale is library code: it reflects either its receiver
\* in place or a new distribution that it returns
Receivers == {"in place", "by value"}

\* the ways the library's x_rescale may still turn out to act
possible_receivers ==
  IF x_rescale_acts = "not seen" THEN Receivers ELSE {x_rescale_acts}

\* line 234, the statement res.x_rescale(-1.0): what x_rescale returns is
\* not used, so res is reflected when x_rescale acts on its receiver and
\* stays what line 233 made it when x_rescale returns a new distribution
rescale_statement(lib, res) ==
  IF lib = "in place" THEN x_rescale(res, -1) ELSE res

\* lines 233-234: the branch-length density shifted by the parent's
\* position, after the statement of line 234
joint_res(s, n, parent_tbp) ==
  rescale_statement(s.lib, shifted_x(s.bli[n], -parent_tbp))

\* lines 236-239 without the node's own message
joint_of_res_only(n, res) == res

\* lines 236-239
joint_of(n, res) ==
  IF msg_to_parent[n] # None THEN multiply(<< msg_to_parent[n], res >>)
  ELSE res

\* lines 233-234 rescaling the interpolator itself, not a copy
interpolator_rescaled(s, n, res) == [s.bli EXCEPT ![n] = res]

\* lines 233-234: shifted_x returns a new distribution and x_rescale acts
\* on that one or on a newer one; the node's interpolator stays as it is
interpolator_after(s, n, res) == s.bli

\* one iteration of the loop at line 217
final_node(s0, n) ==
  LET s == IF up[n] = 0 THEN s0
           ELSE [s0 EXCEPT !.stale =
                   @ \cup stale_if(stamp["msg_from_parent"][n] # inits,
                                   "_set_final_dates", n,
                                   "msg_from_parent", n)
                     \cup stale_if(up[n] \notin s0.done,
                                   "_set_final_dates", n,
                                   "time_before_present", up[n])]
  IN
  IF msg_to_parent[n] = Unset THEN [s EXCEPT !.err = "AttributeError"]
  ELSE IF up[n] = 0
  THEN LET s1 == [s EXCEPT !.marg[n] = msg_to_parent[n],
                           !.joint[n] = msg_to_parent[n]]
       IN IF ~IsDist(msg_to_parent[n])
          THEN [s1 EXCEPT !.err = "AttributeError"]
          ELSE [s1 EXCEPT !.tbp[n] = Num(collapse_func(msg_to_parent[n])),
                          !.done = @ \cup {n},
                          !.bl[n] = Num(one_mutation),
                          !.cl[n] = Num(one_mutation)]
  ELSE IF msg_from_parent[n] = Unset
       THEN [s EXCEPT !.err = "AttributeError"]
  ELSE
    LET marginal == multiply(<< msg_from_parent[n], msg_to_parent[n] >>)
        parent_tbp == s.tbp[up[n]].v
        res == joint_res(s, n, parent_tbp)
        joint == joint_of(n, res)
        t == collapse_func(joint)
    IN IF marginal = Raise THEN [s EXCEPT !.err = "MultiplyError"]
       ELSE [s EXCEPT !.marg[n] = marginal,
                      !.bli = interpolator_after(s, n, res),
                      !.joint[n] = joint,
                      !.rescaled = TRUE,
                      !.tbp[n] = Num(t),
                      !.done = @ \cup {n},
                      !.bl[n] = Num(parent_tbp - t),
                      !.cl[n] = Num(parent_tbp - t)]

RECURSIVE final_run(_, _, _)
final_run(order, i, s) ==
  IF i > Len(order) \/ s.err # "ok" THEN s
  ELSE final_run(order, i + 1, final_node(s, order[i]))

\* line 217: the order of finalization
final_order == Preorder(Root)

\* How x_rescale acts is the same through a program; which way it is shows
\* at the first finalization that reaches line 234.
set_final_dates ==
  /\ may_call("_set_final_dates")
  /\ \E lib \in possible_receivers :
     \E r \in { final_run(final_order, 1,
                   [marg |-> marginal_lh, joint |-> joint_lh,
                    done |-> {}, stale |-> stale_reads,
                    tbp |-> time_before_present, bl |-> branch_length,
                    cl |-> clock_length,
                    bli |-> branch_length_interpolator,
                    lib |-> lib, rescaled |-> FALSE, err |-> "ok"]) } :
       /\ x_rescale_acts' = IF r.rescaled THEN lib ELSE x_rescale_acts
       /\ branch_length_interpolator' = r.bli
       /\ marginal_lh' = r.marg
       /\ joint_lh' = r.joint
       /\ time_before_present' = r.tbp
       /\ branch_length' = r.bl
       /\ clock_length' = r.cl
       /\ err' = r.err
       /\ log' = {}
       /\ again' = (last_op = "_set_final_dates")
       /\ last_op' = "_set_final_dates"
       /\ stamp' = stamped(stamp, "time_before_present", r.done)
       /\ stale_reads' = r.stale
       /\ optimize_calls' = << >>
       /\ other_calls' = << >>
       /\ UNCHANGED << myTree, invoked_on, root_sequence, interpreter >>
       /\ UNCHANGED << inits, up, date_dict, mutations, dead_peak,
                       numdate_given, bad_branch, date2dist,
                       max_diam, abs_t, msg_to_parent, msgs_from_leaves,
                       msg_from_parent, numdate, date, sent_by,
                       complementary_msgs, inverse_time >>

\* ----------------------------------------------------------- convert_dates
\* lines 252-259: the warning logged for a node later than today
future_warning(n) ==
  IF ~bad_branch[n] THEN "ERROR: later than today, not marked BAD"
  ELSE "Warning: BAD node optimized later than present day"

\* the first year datetime and strftime serve without raising: Python 2
\* refuses the years before 1900 in strftime, Python 3 serves the years
\* from 1 on
first_year(py) == IF py = "python2" THEN 1900 ELSE 1

\* lines 263-272: the human-readable date. The except branch renders the
\* years for which datetime or strftime raises.
format_date(py, nd) ==
  [kind |-> "date", year |-> nd,
   approx |-> ~(first_year(py) <= nd /\ nd <= 9999)]

\* line 261 with a future date clamped to today
numdate_clamped(now, years_bp) == IF years_bp < 0 THEN now ELSE now - years_bp

\* line 261
numdate_of(now, years_bp) == now - years_bp

\* one iteration of the loop at line 250
convert_node(s, n) ==
  IF date2dist = None \/ time_before_present[n] = Unset
  THEN [s EXCEPT !.err = "AttributeError"]
  ELSE
    LET years_bp == get_date(date2dist, time_before_present[n].v)
        nd == numdate_of(Today, years_bp)
    IN [s EXCEPT !.log = IF years_bp < 0
                         THEN @ \cup {[node |-> n, msg |-> future_warning(n)]}
                         ELSE @,
                 !.numdate[n] = Num(nd),
                 !.date[n] = format_date(s.py, nd)]

RECURSIVE convert_run(_, _, _)
convert_run(order, i, s) ==
  IF i > Len(order) \/ s.err # "ok" THEN s
  ELSE convert_run(order, i + 1, convert_node(s, order[i]))

\* The interpreter is the same through a program; which one it is shows at
\* the first call that formats a date.
convert_dates ==
  /\ may_call("convert_dates")
  /\ \E py \in possible_interpreters :
     \E r \in { convert_run(Preorder(Root), 1,
                   [numdate |-> numdate, date |-> date, log |-> {},
                    py |-> py, err |-> "ok"]) } :
       /\ interpreter' = py
       /\ optimize_calls' = << >>
       /\ numdate' = r.numdate
       /\ date' = r.date
       /\ log' = r.log
       /\ err' = r.err
       /\ again' = (last_op = "convert_dates")
       /\ last_op' = "convert_dates"
       /\ other_calls' = << >>
       /\ UNCHANGED << myTree, invoked_on, stamp, stale_reads, root_sequence,
                       x_rescale_acts >>
       /\ UNCHANGED << inits, up, date_dict, mutations, dead_peak, numdate_given,
                       bad_branch, branch_length_interpolator, date2dist,
                       max_diam, abs_t, msg_to_parent, msgs_from_leaves,
                       msg_from_parent, marginal_lh, joint_lh,
                       time_before_present, branch_length, clock_length,
                       sent_by, complementary_msgs, inverse_time >>

Next ==
  \/ optimize_seq_and_branch_len
  \/ date2dist_setter
  \/ init_date_constraints
  \/ make_time_tree
  \/ ml_t_leaves_root
  \/ ml_t_root_leaves
  \/ set_final_dates
  \/ convert_dates

Spec == Init /\ [][Next]_vars

\* ------------------------------------------------------------------ claims
UpDone ==
  last_op \in {"_ml_t_leaves_root", "_ml_t_root_leaves", "_set_final_dates",
               "convert_dates"}
DownDone == last_op \in {"_ml_t_root_leaves", "_set_final_dates", "convert_dates"}
FinalDone == last_op \in {"_set_final_dates", "convert_dates"}

\* the node was seeded with a date by init_date_constraints
Seeded(n) == IsNum(abs_t[n])

\* C1: after the upward pass, an internal node that was not seeded has no
\* msg_to_parent exactly when no child has one, and otherwise its
\* msg_to_parent is the product of the messages kept in its
\* msgs_from_leaves; a node has a msg_to_parent exactly when its subtree
\* holds a seeded node.
C1_UpwardMessage ==
  UpDone =>
    \A n \in Nodes :
      /\ (~is_terminal(n) /\ ~Seeded(n)) =>
           /\ (msg_to_parent[n] = None)
                <=> (\A c \in clades(n) : msg_to_parent[c] = None)
           /\ msg_to_parent[n] # None =>
                msg_to_parent[n] = multiply(Values(msgs_from_leaves[n]))
      /\ (msg_to_parent[n] # None) <=> (\E m \in Subtree(n) : Seeded(m))

\* an unseeded internal node with a message next to one without
C1_Witness ==
  /\ UpDone
  /\ \E n, m \in Nodes :
       /\ ~is_terminal(n) /\ ~Seeded(n) /\ IsDist(msg_to_parent[n])
       /\ ~is_terminal(m) /\ ~Seeded(m) /\ msg_to_parent[m] = None

\* C2: in the downward pass the messages multiplied for a non-root node n
\* are the parent's msgs_from_leaves[k] for every key k other than n, plus
\* the parent's msg_from_parent when it is present, and never the message
\* n sent upward; the root's msg_from_parent is None.
C2_Complementary ==
  DownDone =>
    /\ msg_from_parent[Root] = None
    /\ \A n \in Nodes \ {Root} :
         complementary_msgs[n] # Unset =>
           LET cm == complementary_msgs[n]
               from_leaves == msgs_from_leaves[up[n]]
           IN /\ Len(cm.items) = Cardinality(Keys(cm))
              /\ Keys(cm) \ {0} = Keys(from_leaves) \ {n}
              /\ \A k \in Keys(cm) \ {0} : Get(cm, k) = Get(from_leaves, k)
              /\ (0 \in Keys(cm)) <=> (msg_from_parent[up[n]] # None)
              /\ 0 \in Keys(cm) => Get(cm, 0) = msg_from_parent[up[n]]
              /\ n \notin Keys(cm)

\* a node that sent a message upward, with a contributing sibling, under a
\* parent that has a message from above
C2_Witness ==
  /\ DownDone
  /\ \E n \in Nodes \ {Root} :
       /\ complementary_msgs[n] # Unset
       /\ n \in Keys(msgs_from_leaves[up[n]])
       /\ 0 \in Keys(complementary_msgs[n])
       /\ Keys(complementary_msgs[n]) \ {0} # {}
       /\ IsDist(msg_from_parent[n])

\* C3: after finalization a dated leaf that is not marked bad has
\* time_before_present equal to the abs_t it was seeded with, whatever
\* time_before_present its parent received.
C3_LeafPinning ==
  FinalDone =>
    \A n \in Nodes :
      (is_terminal(n) /\ Seeded(n) /\ ~bad_branch[n]
         /\ time_before_present[n] # Unset)
        => time_before_present[n] = abs_t[n]

\* a pinned leaf whose parent was placed later than the leaf
C3_Witness ==
  /\ FinalDone
  /\ \E n \in Nodes \ {Root} :
       /\ is_terminal(n) /\ Seeded(n)
       /\ time_before_present[n] = abs_t[n]
       /\ IsNum(time_before_present[up[n]])
       /\ time_before_present[up[n]].v < abs_t[n].v

\* C4: after finalization every non-root node that is not marked bad lies
\* no earlier than its parent (its branch_length is not negative), and a
\* negative branch_length on such a node is logged as an error.
C4_DateMonotonicity ==
  last_op = "_set_final_dates" =>
    \A n \in Nodes \ {Root} :
      (~bad_branch[n] /\ IsNum(time_before_present[n])
         /\ IsNum(time_before_present[up[n]]))
        => /\ time_before_present[up[n]].v >= time_before_present[n].v
           /\ branch_length[n].v >= 0
           /\ branch_length[n].v < 0 => \E e \in log : e.node = n

\* C5: a second run of finalization right after the first leaves every
\* time_before_present and branch_length as the first run set them;
\* finalization does not change msg_to_parent, msg_from_parent or the
\* branch-length interpolators.
C5_FinalizeIdempotent ==
  [][ last_op' = "_set_final_dates" =>
        /\ msg_to_parent' = msg_to_parent
        /\ msg_from_parent' = msg_from_parent
        /\ branch_length_interpolator' = branch_length_interpolator
        /\ last_op = "_set_final_dates" =>
             /\ time_before_present' = time_before_present
             /\ branch_length' = branch_length ]_vars

\* finalization has run twice in a row and placed an internal non-root node
C5_Witness ==
  /\ last_op = "_set_final_dates" /\ again
  /\ \E n \in Nodes \ {Root} :
       /\ ~is_terminal(n)
       /\ IsNum(time_before_present[n])
       /\ IsNum(branch_length[n])

\* C6: after init_date_constraints completes, a node with numdate_given set
\* and not marked bad has abs_t = (today - numdate_given) * |slope| and a
\* delta msg_to_parent at abs_t with weight 1; every other node has abs_t
\* and msg_to_parent None, whatever an earlier run left there.
C6_InitSeeds ==
  (last_op = "init_date_constraints" /\ err = "ok") =>
    \A n \in Nodes :
      /\ numdate_given[n] = IF bad_branch[n] THEN None ELSE date_dict[n]
      /\ IF IsNum(numdate_given[n]) /\ ~bad_branch[n]
         THEN /\ abs_t[n] = Num((Today - numdate_given[n].v)
                                * Abs(date2dist.slope))
              /\ msg_to_parent[n] = delta_function(abs_t[n].v, 1)
         ELSE /\ abs_t[n] = None
              /\ msg_to_parent[n] = None

\* a second initialization, under a negative slope, has seeded a leaf and
\* cleared an internal node that the earlier upward pass had given a message
C6_Witness ==
  /\ last_op = "init_date_constraints" /\ err = "ok" /\ inits = 2
  /\ date2dist.slope < 0
  /\ \E n \in Nodes : Seeded(n)
  /\ \E n \in Nodes :
       /\ msg_to_parent[n] = None
       /\ msgs_from_leaves[n] # Unset
       /\ Keys(msgs_from_leaves[n]) # {}

\* what init_date_constraints followed by the upward pass computes from
\* the date table dd: the calibration and the root's msg_to_parent
run_outcome(dd, hint, fit) ==
  LET r == init_result(dd, hint, fit)
  IN IF r.err # "ok" THEN [err |-> r.err]
     ELSE [err |-> "ok", date2dist |-> r.date2dist,
           root |-> up_run(Postorder(Root), 1,
                           [mtp |-> r.msg_to_parent, mfl |-> AllUnset,
                            bli |-> make_interpolators(mutations),
                            sent |-> [n \in Nodes |-> "Unset"],
                            err |-> "ok"]).mtp[Root]]

\* C7: a dated leaf marked bad_branch has msg_to_parent None after
\* initialization, is no key of its parent's msgs_from_leaves after the
\* upward pass, and two runs that differ only in the date given to it end
\* with the same root msg_to_parent and the same calibration.
C7_BadBranchDemotion ==
  (last_op = "_ml_t_leaves_root" /\ inits = 1) =>
    /\ \A b \in Nodes :
         (is_terminal(b) /\ bad_branch[b] /\ IsNum(date_dict[b])) =>
           /\ msg_to_parent[b] = None
           /\ b \notin Keys(msgs_from_leaves[up[b]])
           /\ \A d \in DateVals, hint \in SlopeHints, fit \in Fits :
                run_outcome([date_dict EXCEPT ![b] = Num(d)], hint, fit)
                  = run_outcome(date_dict, hint, fit)

\* C8: every convolution of the downward pass is called with
\* inverse_time = True, every convolution of the upward pass with the
\* default inverse_time = False.
C8_InverseTime ==
  \A n \in Nodes :
    /\ inverse_time[n] # "Unset" => inverse_time[n] = "True"
    /\ sent_by[n] \notin {"Unset", "shifted_x"}
         => sent_by[n] = "convolve(inverse_time=False)"

\* C9: convert_dates logs a warning for every node whose years_bp is
\* negative, goes on to convert every node, and stores numdate as
\* today - years_bp, a value later than today, not clamped.
C9_FutureDates ==
  (last_op = "convert_dates" /\ date2dist # None) =>
    /\ err = "ok"
    /\ \A n \in Nodes :
         LET years_bp == get_date(date2dist, time_before_present[n].v)
         IN /\ numdate[n] = Num(Today - years_bp)
            /\ years_bp < 0 =>
                 /\ \E e \in log : e.node = n
                 /\ numdate[n].v > Today

\* the root was placed in the future, and the nodes after it were converted
C9_Witness ==
  /\ last_op = "convert_dates" /\ inits = 1
  /\ get_date(date2dist, time_before_present[Root].v) < 0
  /\ numdate[Root].v > Today
  /\ \A n \in Nodes : IsNum(numdate[n])
  /\ \E n \in Nodes : get_date(date2dist, time_before_present[n].v) >= 0

\* C10: a call of init_date_constraints whose calibration fails ends with
\* the error, leaves date2dist and max_diam at their previous values, seeds
\* or clears no abs_t or msg_to_parent and runs no pass; dates that cannot
\* be calibrated always end so.
C10_CalibrationFailure ==
  [][ inits' = inits + 1 =>
        /\ (\A hint \in SlopeHints : MustFail(numdate_given, hint))
             => err' = "CalibrationError"
        /\ err' = "CalibrationError" =>
             /\ date2dist' = date2dist
             /\ max_diam' = max_diam
             /\ abs_t' = abs_t
             /\ msg_to_parent' = msg_to_parent
             /\ numdate_given' = numdate_given
             /\ msgs_from_leaves' = msgs_from_leaves
             /\ msg_from_parent' = msg_from_parent
             /\ marginal_lh' = marginal_lh
             /\ joint_lh' = joint_lh
             /\ time_before_present' = time_before_present
             /\ numdate' = numdate ]_vars

\* a failed calibration after a successful one
C10_Witness ==
  /\ last_op = "init_date_constraints" /\ err = "CalibrationError"
  /\ date2dist # None
  /\ max_diam # 0
  /\ \E n \in Nodes : IsDist(msg_to_parent[n])

\* the attributes the passes assign on this engine's tree
tree_state ==
  << msg_to_parent, msgs_from_leaves, msg_from_parent, marginal_lh, joint_lh,
     time_before_present, branch_length, clock_length, numdate, date >>

\* C11: make_time_tree invoked on an engine runs the upward pass, the
\* downward pass, finalization and the conversion, in that order, on that
\* engine's own tree, and leaves the tree of every other engine unchanged.
C11_OwnTree ==
  [][ /\ (last_op' = "make_time_tree" /\ invoked_on' = "self") =>
           /\ err' = "ok"
           /\ other_calls' = << >>
      /\ (last_op' = "make_time_tree" /\ invoked_on' = "other") =>
           \E o \in OtherOutcomes :
             /\ other_calls' = SubSeq(Passes, 1, o.calls)
             /\ err' = o.err
      /\ (invoked_on' = "other" /\ last_op' # "make_time_tree") =>
           tree_state' = tree_state
      /\ last_op' = "_ml_t_leaves_root" =>
           last_op = "make_time_tree" /\ invoked_on = "self"
      /\ last_op' = "_ml_t_root_leaves" => last_op = "_ml_t_leaves_root"
      /\ last_op' = "convert_dates" => last_op = "_set_final_dates" ]_vars

\* C12: messages are immutable once produced: the downward pass and
\* finalization leave every msg_to_parent, msgs_from_leaves and
\* branch_length_interpolator as they were, finalization leaves every
\* msg_from_parent as it was, and the messages the downward pass multiplies
\* for a node are those the upward pass kept for its parent, the node's
\* own one excluded.
C12_MessagesImmutable ==
  [][ /\ last_op' \in {"_ml_t_root_leaves", "_set_final_dates"} =>
           /\ msg_to_parent' = msg_to_parent
           /\ msgs_from_leaves' = msgs_from_leaves
           /\ branch_length_interpolator' = branch_length_interpolator
      /\ last_op' = "_set_final_dates" => msg_from_parent' = msg_from_parent
      /\ last_op' = "_ml_t_root_leaves" =>
           \A n \in Nodes \ {Root} :
             complementary_msgs'[n] # Unset =>
               \A k \in Keys(msgs_from_leaves[up[n]]) \ {n} :
                 /\ k \in Keys(complementary_msgs'[n])
                 /\ Get(complementary_msgs'[n], k)
                      = Get(msgs_from_leaves[up[n]], k) ]_vars

\* both passes have run over an internal node that kept two messages, and
\* each of its children was handed the other's message
C12_Witness ==
  /\ last_op = "_set_final_dates" /\ err = "ok"
  /\ \E n \in Nodes \ {Root} :
       /\ Cardinality(Keys(msgs_from_leaves[n])) = 2
       /\ \A c \in clades(n) :
            Keys(complementary_msgs[c]) = (clades(n) \ {c}) \cup {0}

\* the branch-length density of node n reflected about its parent's
\* position: weight of time t is the weight of branch length p_tbp - t
reflected(n, p_tbp) ==
  [kind |-> "interp", xmin |-> p_tbp - MaxBranchLen, xmax |-> p_tbp,
   p |-> [t \in (p_tbp - MaxBranchLen)..p_tbp |->
            prob(branch_length_interpolator[n], p_tbp - t)],
   peak_pos |-> p_tbp - branch_length_interpolator[n].peak_pos]

\* C13: after a finalization that placed the root, for every non-root node
\* n with parent p, joint_lh is the branch-length density shifted by
\* -p.time_before_present and reflected, supported on
\* [p.time_before_present - b_max, p.time_before_present], multiplied by
\* n.msg_to_parent when that is present and alone otherwise;
\* time_before_present is the peak of joint_lh.
C13_JointReflected ==
  (last_op = "_set_final_dates" /\ stamp["time_before_present"][Root] = inits)
  =>
    \A n \in Nodes \ {Root} :
      /\ IsNum(time_before_present[up[n]])
      /\ IsNum(time_before_present[n])
      /\ LET p_tbp == time_before_present[up[n]].v
             res == reflected(n, p_tbp)
         IN /\ joint_lh[n] = IF msg_to_parent[n] # None
                             THEN multiply(<< msg_to_parent[n], res >>)
                             ELSE res
            /\ time_before_present[n] = Num(peak_pos(joint_lh[n]))
            /\ joint_lh[n].kind = "interp" =>
                 /\ p_tbp - MaxBranchLen <= joint_lh[n].xmin
                 /\ joint_lh[n].xmax <= p_tbp
                 /\ p_tbp - MaxBranchLen <= time_before_present[n].v
                 /\ time_before_present[n].v <= p_tbp

\* C14: after the upward pass the keys of an internal node's
\* msgs_from_leaves are exactly its children that have a msg_to_parent,
\* each value is the child's branch-length density shifted to the child's
\* position when the child's message is a delta and the convolution of the
\* message with that density otherwise; a terminal node's msgs_from_leaves
\* is empty.
C14_MessagesFromLeaves ==
  UpDone =>
    \A n \in Nodes :
      IF is_terminal(n) THEN msgs_from_leaves[n] = Dict(<< >>)
      ELSE
        LET d == msgs_from_leaves[n]
        IN /\ Len(d.items) = Cardinality(Keys(d))
           /\ Keys(d) = { c \in clades(n) : msg_to_parent[c] # None }
           /\ \A c \in Keys(d) :
                LET m == msg_to_parent[c]
                    b == branch_length_interpolator[c]
                    v == Get(d, c)
                IN IF m.kind = "delta"
                   THEN /\ v.kind = "interp"
                        /\ v.xmin = m.pos /\ v.xmax = m.pos + MaxBranchLen
                        /\ \A x \in v.xmin..v.xmax : v.p[x] = prob(b, x - m.pos)
                        /\ sent_by[c] = "shifted_x"
                   ELSE /\ v = convolve(m, b, FALSE)
                        /\ sent_by[c] = "convolve(inverse_time=False)"
                        /\ v.kind = "interp" =>
                             /\ v.xmin = m.xmin
                             /\ v.xmax = m.xmax + MaxBranchLen

\* one node keeps a shifted and a convolved message, another node has a
\* child without a message next to a child with one
C14_Witness ==
  /\ last_op = "_ml_t_leaves_root"
  /\ \E n \in Nodes :
       \E c1, c2 \in Keys(msgs_from_leaves[n]) :
         /\ msg_to_parent[c1].kind = "delta"
         /\ msg_to_parent[c2].kind = "interp"
  /\ \E n \in Nodes :
       \E c1, c2 \in clades(n) :
         /\ msg_to_parent[c1] = None
         /\ c2 \in Keys(msgs_from_leaves[n])

\* C15: whenever the downward pass processes a non-root node, the parent's
\* msg_from_parent was assigned earlier in this pass and the parent's
\* msgs_from_leaves by the upward pass of this run; whenever finalization
\* processes a non-root node, the parent's time_before_present was assigned
\* earlier in this finalization; no step reads a slot that is unset or left
\* over from an earlier run.
C15_ReadAfterWrite ==
  /\ stale_reads = {}
  /\ (DownDone /\ last_op = "_ml_t_root_leaves") =>
       \A n \in Nodes \ {Root} :
         complementary_msgs[n] # Unset /\ stamp["msg_from_parent"][n] = inits
           => /\ stamp["msgs_from_leaves"][up[n]] = inits
              /\ stamp["msg_from_parent"][up[n]] = inits
              /\ msg_from_parent[up[n]] # Unset
  /\ (last_op = "_set_final_dates") =>
       \A n \in Nodes \ {Root} :
         stamp["time_before_present"][n] = inits
           => /\ stamp["time_before_present"][up[n]] = inits
              /\ stamp["msg_from_parent"][n] = inits
              /\ IsNum(time_before_present[up[n]])

\* the second run has finalized a grandchild of the root over the values
\* the first run left behind
C15_Witness ==
  /\ last_op = "_set_final_dates" /\ err = "ok" /\ inits = 2
  /\ stale_reads = {}
  /\ \E n \in Nodes \ {Root} :
       /\ up[n] # Root
       /\ stamp["time_before_present"][n] = 2
       /\ stamp["msg_from_parent"][up[n]] = 2
       /\ numdate[n] # Unset

\* C16: in the downward pass the collection handed to multiply for a
\* non-root node holds at least one message, so multiply is never called on
\* an empty collection and the pass does not fail on one.
C16_ComplementaryNonEmpty ==
  DownDone =>
    /\ \A n \in Nodes \ {Root} :
         complementary_msgs[n] # Unset => Len(complementary_msgs[n].items) >= 1
    /\ last_op = "_ml_t_root_leaves" => err # "MultiplyError"

\* C17: in finalization every multiply call receives only present
\* distributions: for every non-root node msg_from_parent and msg_to_parent
\* are both present when marginal_lh is computed, and the root's
\* msg_to_parent is present when its peak is taken.
C17_MarginalOperandsPresent ==
  last_op = "_set_final_dates" =>
    /\ err = "ok"
    /\ IsDist(msg_to_parent[Root])
    /\ \A n \in Nodes \ {Root} :
         /\ IsDist(msg_from_parent[n])
         /\ IsDist(msg_to_parent[n])
====
